---- MODULE Spec2Model ----
(***************************************************************************)
(* goto_plugin_speed::Plugin (src/src/goto_plugin_speed.cpp): the go-to    *)
(* behaviour's speed plugin.  The model has two layers:                    *)
(*   - the arithmetic of the control tick (position error, velocity        *)
(*     limiter), on a scaled-down binary floating point;                   *)
(*   - the goal lifecycle: ownInit, onAccepted, onCancel and the loop of   *)
(*     onExecute, one action per statement group, interleaved with the     *)
(*     callers and the state estimator.                                    *)
(***************************************************************************)
EXTENDS Integers, Sequences, FiniteSets, TLC

(***************************************************************************)
(* Numbers.  A number is an integer count of quanta; Unit quanta make 1.0. *)
(* A binary floating-point format with p significant bits holds exactly    *)
(* the integers whose magnitude needs at most p significant bits; every    *)
(* arithmetic result is rounded to the nearest such value, ties to even,   *)
(* as IEEE 754 does.  "double" (Eigen::Vector3d) has DoubleBits, "float"   *)
(* (desired_speed_, the parameter of getValidSpeed) has FloatBits.         *)
(***************************************************************************)
FloatBits == 3
DoubleBits == 6
UnitLog == 10

RECURSIVE Pow2(_)
Pow2(n) == IF n <= 0 THEN 1 ELSE 2 * Pow2(n - 1)

Unit == Pow2(UnitLog)

Abs(x) == IF x < 0 THEN -x ELSE x

Sign(x) == IF x < 0 THEN -1 ELSE IF x > 0 THEN 1 ELSE 0

\* a / d (a >= 0, d > 0) rounded to the nearest integer, ties to even
RoundDiv(a, d) ==
    LET q == a \div d
        r == a % d
    IN  IF 2 * r < d THEN q
        ELSE IF 2 * r > d THEN q + 1
        ELSE IF q % 2 = 0 THEN q ELSE q + 1

\* the power of two s with a / d < 2^p * s, the smallest one >= s0
RECURSIVE Scale(_, _, _, _)
Scale(p, a, d, s0) == IF a < Pow2(p) * s0 * d THEN s0 ELSE Scale(p, a, d, 2 * s0)

\* the rational num / den (den > 0) rounded to p significant bits
Round(p, num, den) ==
    LET a == Abs(num)
        s == Scale(p, a, den, 1)
    IN  Sign(num) * RoundDiv(a, den * s) * s

Representable(p, x) == Round(p, x, 1) = x

\* double -> float (the argument conversion of getValidSpeed)
ToFloat(x) == Round(FloatBits, x, 1)

\* double arithmetic
DSub(a, b) == Round(DoubleBits, a - b, 1)
DMul(a, b) == Round(DoubleBits, a * b, Unit)
DDiv(a, b) == Round(DoubleBits, Sign(b) * a * Unit, Abs(b))
DAdd(a, b) == Round(DoubleBits, a + b, 1)

\* the decimal literal n / 10 as a double, and as a float
Dec(n) == Round(DoubleBits, n * Unit, 10)
DecF(n) == Round(FloatBits, n * Unit, 10)

(***************************************************************************)
(* The velocity limiter (lines 124-144 and getValidSpeed, lines 171-178).  *)
(* A vector is a tuple <<x, y, z>>.                                        *)
(***************************************************************************)
Axes == 1..3

\* getValidSpeed without std::abs: a negative speed is never clamped
getValidSpeed_NoAbs(speed, desired_speed) ==
    LET s == ToFloat(speed)
    IN  IF s > desired_speed THEN desired_speed ELSE s

\* float getValidSpeed(float speed): the double argument is narrowed to
\* float, compared with the float desired_speed_ and returned as float
getValidSpeed(speed, desired_speed) ==
    LET s == ToFloat(speed)
    IN  IF Abs(s) > desired_speed
        THEN (IF s < 0 THEN -desired_speed ELSE desired_speed)
        ELSE s

\* lines 141-143: each axis through getValidSpeed
ClampLimit(speed, desired_speed) ==
    [i \in Axes |-> getValidSpeed(speed[i], desired_speed)]

\* the loop body scaling only the axis it tests (speed[j] *= ...)
PropStep_OneAxis(speed, desired_speed, j) ==
    IF desired_speed = 0 \/ speed[j] = 0 THEN speed
    ELSE IF speed[j] > desired_speed \/ speed[j] < -desired_speed
         THEN LET f == Abs(DDiv(desired_speed, speed[j]))
              IN  [i \in Axes |-> IF i = j THEN DMul(speed[i], f) ELSE speed[i]]
         ELSE speed

\* the loop body with the integer abs() of C in place of std::abs: the
\* ratio is truncated to an integer
PropStep_IntAbs(speed, desired_speed, j) ==
    IF desired_speed = 0 \/ speed[j] = 0 THEN speed
    ELSE IF speed[j] > desired_speed \/ speed[j] < -desired_speed
         THEN LET f == (Abs(DDiv(desired_speed, speed[j])) \div Unit) * Unit
              IN  [i \in Axes |-> DMul(speed[i], f)]
         ELSE speed

\* the loop body without the test of desired_speed_ == 0.0f
PropStep_NoZeroGuard(speed, desired_speed, j) ==
    IF speed[j] = 0 THEN speed
    ELSE IF speed[j] > desired_speed \/ speed[j] < -desired_speed
         THEN LET f == Abs(DDiv(desired_speed, speed[j]))
              IN  [i \in Axes |-> DMul(speed[i], f)]
         ELSE speed

\* lines 131-136: one pass of the loop body, for axis j
PropStep(speed, desired_speed, j) ==
    IF desired_speed = 0 \/ speed[j] = 0 THEN speed
    ELSE IF speed[j] > desired_speed \/ speed[j] < -desired_speed
         THEN LET f == Abs(DDiv(desired_speed, speed[j]))
              IN  [i \in Axes |-> DMul(speed[i], f)]
         ELSE speed

\* the loop stopping one axis early (j < 2)
PropLimit_TwoAxes(speed, desired_speed) ==
    PropStep(PropStep(speed, desired_speed, 1), desired_speed, 2)

\* lines 129-137: for (short j = 0; j < 3; j++)
PropLimit(speed, desired_speed) ==
    PropStep(PropStep(PropStep(speed, desired_speed, 1), desired_speed, 2),
             desired_speed, 3)

\* lines 124-144: the velocity command of a tick
LimitSpeed(speed_setpoint, desired_speed, proportional) ==
    IF proportional THEN PropLimit(speed_setpoint, desired_speed)
    ELSE ClampLimit(speed_setpoint, desired_speed)

\* line 106: desired_position_ - actual_position_
PositionError(desired_position, actual_position) ==
    [i \in Axes |-> DSub(desired_position[i], actual_position[i])]

\* line 115: speed_setpoint.head(2).norm() < 2.0f.  The square root is
\* monotone and exact at 4.0, so the test is on the rounded sum of squares.
NearGoal(speed_setpoint) ==
    DAdd(DMul(speed_setpoint[1], speed_setpoint[1]),
         DMul(speed_setpoint[2], speed_setpoint[2])) < 4 * Unit

\* getActualYaw(): the heading the state provider reports when it is read
ActualYaw == <<"getActualYaw">>

\* lines 165-169: atan2f of the error's y and x, both narrowed to float
getDesiredYawAngle(position_error) ==
    <<"atan2f", ToFloat(position_error[2]), ToFloat(position_error[1])>>

\* the heading with the near-goal test left out
SelectYaw_NoNearGoal(speed_setpoint, ignore_yaw) ==
    IF ignore_yaw THEN ActualYaw
    ELSE getDesiredYawAngle(speed_setpoint)

\* lines 109-122 (the value line 109 assigns is overwritten by each branch
\* of lines 111-122)
SelectYaw(speed_setpoint, ignore_yaw) ==
    IF ignore_yaw THEN ActualYaw
    ELSE IF ~ignore_yaw /\ NearGoal(speed_setpoint) THEN ActualYaw
    ELSE getDesiredYawAngle(speed_setpoint)

(***************************************************************************)
(* Bounds and input sets of the lifecycle model.                           *)
(***************************************************************************)
MaxTicks == 1
MaxGoals == 2

NoGoal == [none |-> TRUE]

Origin == <<0, 0, 0>>

\* goals the caller may send: target position, max_speed (float32,
\* 0 = not given), ignore_pose_yaw
GoalFast == [pos |-> <<10 * Unit, 10 * Unit, 0>>, max_speed |-> 3 * Unit,
             ignore_yaw |-> FALSE]
GoalPlain == [pos |-> <<Unit, 0, -3 * Unit>>, max_speed |-> 0,
              ignore_yaw |-> TRUE]
Goals == {GoalFast, GoalPlain}

\* positions the state estimator may report
ActualPositions == {Origin, <<Unit, Dec(1), 0>>}

\* the max speed the host configures desired_speed_ with
DefaultSpeeds == {2 * Unit}

VARIABLES
    initialized,              \* ownInit has returned
    param_error,              \* ownInit logged the parameter error (line 58)
    proportional_speed_limit_,
    default_max_speed,        \* the configured value desired_speed_ starts with
    desired_position_, desired_speed_, ignore_yaw_, distance_measured_,
    actual_position_, pose_mutex_,
    goal_condition,           \* what checkGoalCondition() returns now
    acc_pc, acc_goal,         \* onAccepted on the caller's context
    accepted,                 \* number of goals onAccepted has accepted
    pending,                  \* the accepted goal whose onExecute is due
    pc,                       \* onExecute: the line about to run
    exec_goal,                \* goal_handle->get_goal()
    canceling,                \* goal_handle->is_canceling()
    speed_setpoint, desired_yaw, speed,
    result_success,           \* result->goto_success
    n_canceled, n_succeed,    \* goal_handle->canceled / succeed calls
    n_hold, n_vel, n_feedback,\* sendHover / sendSpeedCommand / publish_feedback
    ret,                      \* the value onExecute returned
    ticks,                    \* completed loop iterations
    hist                      \* history of this execution, for the properties

plugin_vars == <<proportional_speed_limit_, desired_position_, desired_speed_,
                 ignore_yaw_, distance_measured_>>
init_vars == <<initialized, param_error, default_max_speed>>
env_vars == <<actual_position_, goal_condition>>
acc_vars == <<acc_pc, acc_goal, accepted, pending>>
local_vars == <<speed_setpoint, desired_yaw, speed, result_success>>
out_vars == <<n_canceled, n_succeed, n_hold, n_vel, n_feedback, ret>>
vars == <<plugin_vars, init_vars, env_vars, acc_vars, local_vars, out_vars,
          pose_mutex_, pc, exec_goal, canceling, ticks, hist>>

\* history of one execution
Hist0 ==
    [goal_found |-> FALSE,       \* the while condition found the goal reached
     cancel_found |-> FALSE,     \* line 96 found the cancel request
     both_at_start |-> FALSE,    \* some tick started with cancel and goal both true
     started_canceling |-> FALSE,\* the current tick started with a cancel pending
     vel_after_cancel |-> 0,     \* velocity commands issued after the request
     vel_in_cancel_tick |-> FALSE,\* one issued in a tick started after it
     rejected |-> FALSE,         \* the actuator rejected a velocity command
     vel_after_reject |-> 0,     \* velocity commands issued after a rejected one
     overlap |-> FALSE,          \* onAccepted wrote while this execution ran
     limit |-> 0,                \* desired_speed_ as the last tick read it
     limited |-> FALSE,          \* a tick has computed a command
     vel_at_goal |-> 0,          \* n_vel when the goal was found reached
     limit_at_start |-> 0]       \* desired_speed_ as onAccepted left it

(***************************************************************************)
(* Construction (lines 43-47) and the host's configuration.                *)
(***************************************************************************)
Init ==
    /\ initialized = FALSE
    /\ param_error = FALSE
    /\ proportional_speed_limit_ = FALSE
    /\ default_max_speed \in DefaultSpeeds
    /\ desired_speed_ = default_max_speed
    /\ desired_position_ = Origin
    /\ ignore_yaw_ = FALSE
    /\ distance_measured_ = FALSE
    /\ actual_position_ = Origin
    /\ pose_mutex_ = "free"
    /\ goal_condition = FALSE
    /\ acc_pc = "idle"
    /\ acc_goal = NoGoal
    /\ accepted = 0
    /\ pending = NoGoal
    /\ pc = "idle"
    /\ exec_goal = NoGoal
    /\ canceling = FALSE
    /\ speed_setpoint = Origin
    /\ desired_yaw = ActualYaw
    /\ speed = Origin
    /\ result_success = "unset"
    /\ n_canceled = 0
    /\ n_succeed = 0
    /\ n_hold = 0
    /\ n_vel = 0
    /\ n_feedback = 0
    /\ ret = "none"
    /\ ticks = 0
    /\ hist = Hist0

Executing == pc \notin {"idle", "done"}

(***************************************************************************)
(* ownInit (lines 49-61).  The parameter load either yields the flag or    *)
(* throws rclcpp::ParameterTypeException, which the handler catches and    *)
(* logs; the plugin object stays alive (line 59 is commented out).         *)
(***************************************************************************)
ParamLoads == {"true", "false", "ParameterTypeException"}

ownInit ==
    /\ ~initialized
    /\ \E loaded \in ParamLoads :
          IF loaded = "ParameterTypeException"
          THEN /\ param_error' = TRUE
               /\ UNCHANGED proportional_speed_limit_
          ELSE /\ proportional_speed_limit_' = (loaded = "true")
               /\ UNCHANGED param_error
    /\ initialized' = TRUE
    /\ UNCHANGED <<default_max_speed, desired_position_, desired_speed_,
                   ignore_yaw_, distance_measured_, env_vars, acc_vars,
                   local_vars, out_vars, pose_mutex_, pc, exec_goal,
                   canceling, ticks, hist>>

(***************************************************************************)
(* onAccepted (lines 63-74), statement by statement: it runs on the        *)
(* caller's context, also while onExecute is looping.                      *)
(***************************************************************************)
NoteOverlap == IF Executing THEN [hist EXCEPT !.overlap = TRUE] ELSE hist

\* line 65
onAccepted65 ==
    /\ initialized
    /\ acc_pc = "idle"
    /\ pending = NoGoal
    /\ accepted < MaxGoals
    /\ \E goal \in Goals :
          /\ acc_goal' = goal
          /\ desired_position_' = goal.pos
    /\ acc_pc' = "l66"
    /\ hist' = NoteOverlap
    /\ UNCHANGED <<proportional_speed_limit_, desired_speed_, ignore_yaw_,
                   distance_measured_, init_vars, env_vars, accepted, pending,
                   local_vars, out_vars, pose_mutex_, pc, exec_goal,
                   canceling, ticks>>

\* lines 66-69
onAccepted66 ==
    /\ acc_pc = "l66"
    /\ desired_speed_' = IF acc_goal.max_speed # 0 THEN acc_goal.max_speed
                         ELSE desired_speed_
    /\ acc_pc' = "l70"
    /\ hist' = NoteOverlap
    /\ UNCHANGED <<proportional_speed_limit_, desired_position_, ignore_yaw_,
                   distance_measured_, init_vars, env_vars, acc_goal, accepted,
                   pending, local_vars, out_vars, pose_mutex_, pc, exec_goal,
                   canceling, ticks>>

\* line 70
onAccepted70 ==
    /\ acc_pc = "l70"
    /\ ignore_yaw_' = acc_goal.ignore_yaw
    /\ acc_pc' = "l71"
    /\ hist' = NoteOverlap
    /\ UNCHANGED <<proportional_speed_limit_, desired_position_, desired_speed_,
                   distance_measured_, init_vars, env_vars, acc_goal, accepted,
                   pending, local_vars, out_vars, pose_mutex_, pc, exec_goal,
                   canceling, ticks>>

\* lines 71-73: return ACCEPT_AND_EXECUTE; the host then runs onExecute
onAccepted71 ==
    /\ acc_pc = "l71"
    /\ distance_measured_' = FALSE
    /\ accepted' = accepted + 1
    /\ pending' = acc_goal
    /\ acc_goal' = NoGoal
    /\ acc_pc' = "idle"
    /\ hist' = NoteOverlap
    /\ UNCHANGED <<proportional_speed_limit_, desired_position_, desired_speed_,
                   ignore_yaw_, init_vars, env_vars, local_vars,
                   out_vars, pose_mutex_, pc, exec_goal, canceling, ticks>>

(***************************************************************************)
(* onCancel (lines 76-79): always ACCEPT; the goal handle is then          *)
(* canceling.  A cancel request reaches it only for a goal that is         *)
(* executing and has no result yet.                                        *)
(***************************************************************************)
onCancel ==
    /\ Executing
    /\ ~canceling
    /\ n_canceled + n_succeed = 0
    /\ canceling' = TRUE
    /\ UNCHANGED <<plugin_vars, init_vars, env_vars, acc_vars, local_vars,
                   out_vars, pose_mutex_, pc, exec_goal, ticks, hist>>

(***************************************************************************)
(* The state estimator: writes actual_position_ under pose_mutex_ and      *)
(* decides what checkGoalCondition() returns.                              *)
(***************************************************************************)
StateEstimate ==
    /\ initialized
    /\ pose_mutex_ = "free"
    /\ \E p \in ActualPositions, g \in BOOLEAN :
          /\ <<p, g>> # <<actual_position_, goal_condition>>
          /\ actual_position_' = p
          /\ goal_condition' = g
    /\ distance_measured_' = TRUE
    /\ UNCHANGED <<proportional_speed_limit_, desired_position_, desired_speed_,
                   ignore_yaw_, init_vars, acc_vars, local_vars, out_vars,
                   pose_mutex_, pc, exec_goal, canceling, ticks, hist>>

(***************************************************************************)
(* onExecute (lines 81-162).                                               *)
(***************************************************************************)
\* lines 83-91: a new goal handle, not canceling; desired_yaw = getActualYaw()
onExecute83 ==
    /\ ~Executing
    /\ pending # NoGoal
    /\ exec_goal' = pending
    /\ pending' = NoGoal
    /\ canceling' = FALSE
    /\ desired_yaw' = ActualYaw
    /\ result_success' = "unset"
    /\ n_canceled' = 0
    /\ n_succeed' = 0
    /\ n_hold' = 0
    /\ n_vel' = 0
    /\ n_feedback' = 0
    /\ ret' = "none"
    /\ ticks' = 0
    /\ hist' = [Hist0 EXCEPT !.limit_at_start = desired_speed_]
    /\ speed_setpoint' = Origin
    /\ speed' = Origin
    /\ pc' = "l94"
    /\ UNCHANGED <<plugin_vars, init_vars, env_vars, acc_pc, acc_goal, accepted,
                   pose_mutex_>>

\* the loop testing the cancel request before the goal condition
onExecute94_CancelFirst ==
    /\ pc = "l94"
    /\ pc' = IF canceling THEN "l98" ELSE IF goal_condition THEN "l158" ELSE "l96"
    /\ hist' = [hist EXCEPT !.goal_found = goal_condition /\ ~canceling,
                            !.vel_at_goal = n_vel,
                            !.started_canceling = canceling,
                            !.both_at_start = @ \/ (canceling /\ goal_condition)]
    /\ UNCHANGED <<plugin_vars, init_vars, env_vars, acc_vars, local_vars,
                   out_vars, pose_mutex_, exec_goal, canceling, ticks>>

\* line 94: while (!checkGoalCondition())
onExecute94 ==
    /\ pc = "l94"
    /\ pc' = IF goal_condition THEN "l158" ELSE "l96"
    /\ hist' = [hist EXCEPT !.goal_found = goal_condition,
                            !.vel_at_goal = n_vel,
                            !.started_canceling = canceling,
                            !.both_at_start = @ \/ (canceling /\ goal_condition)]
    /\ UNCHANGED <<plugin_vars, init_vars, env_vars, acc_vars, local_vars,
                   out_vars, pose_mutex_, exec_goal, canceling, ticks>>

\* the loop body without the cancel test
onExecute96_NoTest ==
    /\ pc = "l96"
    /\ pc' = "l105"
    /\ hist' = [hist EXCEPT !.cancel_found = FALSE]
    /\ UNCHANGED <<plugin_vars, init_vars, env_vars, acc_vars, local_vars,
                   out_vars, pose_mutex_, exec_goal, canceling, ticks>>

\* line 96: if (goal_handle->is_canceling())
onExecute96 ==
    /\ pc = "l96"
    /\ pc' = IF canceling THEN "l98" ELSE "l105"
    /\ hist' = [hist EXCEPT !.cancel_found = canceling]
    /\ UNCHANGED <<plugin_vars, init_vars, env_vars, acc_vars, local_vars,
                   out_vars, pose_mutex_, exec_goal, canceling, ticks>>

\* lines 98-100: result->goto_success = false; goal_handle->canceled(result)
onExecute98 ==
    /\ pc = "l98"
    /\ result_success' = FALSE
    /\ n_canceled' = n_canceled + 1
    /\ pc' = "l101"
    /\ UNCHANGED <<plugin_vars, init_vars, env_vars, acc_vars, speed_setpoint,
                   desired_yaw, speed, n_succeed, n_hold, n_vel, n_feedback, ret,
                   pose_mutex_, exec_goal, canceling, ticks, hist>>

\* the cancel path without its sendHover()
onExecute101_NoHover ==
    /\ pc = "l101"
    /\ pc' = "l102"
    /\ UNCHANGED <<plugin_vars, init_vars, env_vars, acc_vars, local_vars,
                   out_vars, pose_mutex_, exec_goal, canceling, ticks, hist>>

\* line 101: motion_handler_hover.sendHover()
onExecute101 ==
    /\ pc = "l101"
    /\ n_hold' = n_hold + 1
    /\ pc' = "l102"
    /\ UNCHANGED <<plugin_vars, init_vars, env_vars, acc_vars, local_vars,
                   n_canceled, n_succeed, n_vel, n_feedback, ret, pose_mutex_,
                   exec_goal, canceling, ticks, hist>>

\* line 102: return false
onExecute102 ==
    /\ pc = "l102"
    /\ ret' = FALSE
    /\ pc' = "done"
    /\ UNCHANGED <<plugin_vars, init_vars, env_vars, acc_vars, local_vars,
                   n_canceled, n_succeed, n_hold, n_vel, n_feedback, pose_mutex_,
                   exec_goal, canceling, ticks, hist>>

\* line 105: pose_mutex_.lock()
onExecute105 ==
    /\ pc = "l105"
    /\ pose_mutex_ = "free"
    /\ pose_mutex_' = "onExecute"
    /\ pc' = "l106"
    /\ UNCHANGED <<plugin_vars, init_vars, env_vars, acc_vars, local_vars,
                   out_vars, exec_goal, canceling, ticks, hist>>

\* line 106: speed_setpoint = desired_position_ - actual_position_
onExecute106 ==
    /\ pc = "l106"
    /\ speed_setpoint' = PositionError(desired_position_, actual_position_)
    /\ pc' = "l107"
    /\ UNCHANGED <<plugin_vars, init_vars, env_vars, acc_vars, desired_yaw,
                   speed, result_success, out_vars, pose_mutex_, exec_goal,
                   canceling, ticks, hist>>

\* the tick going on without pose_mutex_.unlock()
onExecute107_NoUnlock ==
    /\ pc = "l107"
    /\ pc' = "l109"
    /\ UNCHANGED <<plugin_vars, init_vars, env_vars, acc_vars, local_vars,
                   out_vars, pose_mutex_, exec_goal, canceling, ticks, hist>>

\* line 107: pose_mutex_.unlock()
onExecute107 ==
    /\ pc = "l107"
    /\ pose_mutex_' = "free"
    /\ pc' = "l109"
    /\ UNCHANGED <<plugin_vars, init_vars, env_vars, acc_vars, local_vars,
                   out_vars, exec_goal, canceling, ticks, hist>>

\* lines 109-122: the heading
onExecute109 ==
    /\ pc = "l109"
    /\ desired_yaw' = SelectYaw(speed_setpoint, ignore_yaw_)
    /\ pc' = "l124"
    /\ UNCHANGED <<plugin_vars, init_vars, env_vars, acc_vars, speed_setpoint,
                   speed, result_success, out_vars, pose_mutex_, exec_goal,
                   canceling, ticks, hist>>

\* lines 124-144: the limited speed
onExecute124 ==
    /\ pc = "l124"
    /\ speed' = LimitSpeed(speed_setpoint, desired_speed_,
                           proportional_speed_limit_)
    /\ hist' = [hist EXCEPT !.limit = desired_speed_, !.limited = TRUE]
    /\ pc' = "l146"
    /\ UNCHANGED <<plugin_vars, init_vars, env_vars, acc_vars, speed_setpoint,
                   desired_yaw, result_success, out_vars, pose_mutex_,
                   exec_goal, canceling, ticks>>

\* lines 146-149: sendSpeedCommandWithYawAngle; the actuator interface
\* accepts or rejects the command and the call's result is not read
onExecute146 ==
    /\ pc = "l146"
    /\ n_vel' = n_vel + 1
    /\ \E ok \in BOOLEAN :
          hist' = [hist EXCEPT
                     !.vel_after_cancel = IF canceling THEN @ + 1 ELSE @,
                     !.vel_in_cancel_tick = @ \/ hist.started_canceling,
                     !.vel_after_reject = IF hist.rejected THEN @ + 1 ELSE @,
                     !.rejected = @ \/ ~ok]
    /\ pc' = "l151"
    /\ UNCHANGED <<plugin_vars, init_vars, env_vars, acc_vars, local_vars,
                   n_canceled, n_succeed, n_hold, n_feedback, ret, pose_mutex_,
                   exec_goal, canceling, ticks>>

\* lines 151-153: publish_feedback
onExecute151 ==
    /\ pc = "l151"
    /\ n_feedback' = n_feedback + 1
    /\ pc' = "l155"
    /\ UNCHANGED <<plugin_vars, init_vars, env_vars, acc_vars, local_vars,
                   n_canceled, n_succeed, n_hold, n_vel, ret, pose_mutex_,
                   exec_goal, canceling, ticks, hist>>

\* the loop giving up after the sleep instead of testing the goal again
onExecute155_GiveUp ==
    /\ pc = "l155"
    /\ ticks < MaxTicks
    /\ ticks' = ticks + 1
    /\ pc' = "l158"
    /\ UNCHANGED <<plugin_vars, init_vars, env_vars, acc_vars, local_vars,
                   out_vars, pose_mutex_, exec_goal, canceling, hist>>

\* line 155: loop_rate.sleep(), then the next iteration
onExecute155 ==
    /\ pc = "l155"
    /\ ticks < MaxTicks
    /\ ticks' = ticks + 1
    /\ pc' = "l94"
    /\ UNCHANGED <<plugin_vars, init_vars, env_vars, acc_vars, local_vars,
                   out_vars, pose_mutex_, exec_goal, canceling, hist>>

\* lines 158-159: result->goto_success = true; goal_handle->succeed(result)
onExecute158 ==
    /\ pc = "l158"
    /\ result_success' = TRUE
    /\ n_succeed' = n_succeed + 1
    /\ pc' = "l160"
    /\ UNCHANGED <<plugin_vars, init_vars, env_vars, acc_vars, speed_setpoint,
                   desired_yaw, speed, n_canceled, n_hold, n_vel, n_feedback, ret,
                   pose_mutex_, exec_goal, canceling, ticks, hist>>

\* the success path with sendHover() called twice
onExecute160_Twice ==
    /\ pc = "l160"
    /\ n_hold' = n_hold + 2
    /\ pc' = "l161"
    /\ UNCHANGED <<plugin_vars, init_vars, env_vars, acc_vars, local_vars,
                   n_canceled, n_succeed, n_vel, n_feedback, ret, pose_mutex_,
                   exec_goal, canceling, ticks, hist>>

\* line 160: motion_handler_hover.sendHover()
onExecute160 ==
    /\ pc = "l160"
    /\ n_hold' = n_hold + 1
    /\ pc' = "l161"
    /\ UNCHANGED <<plugin_vars, init_vars, env_vars, acc_vars, local_vars,
                   n_canceled, n_succeed, n_vel, n_feedback, ret, pose_mutex_,
                   exec_goal, canceling, ticks, hist>>

\* line 161: return true
onExecute161 ==
    /\ pc = "l161"
    /\ ret' = TRUE
    /\ pc' = "done"
    /\ UNCHANGED <<plugin_vars, init_vars, env_vars, acc_vars, local_vars,
                   n_canceled, n_succeed, n_hold, n_vel, n_feedback, pose_mutex_,
                   exec_goal, canceling, ticks, hist>>

Next ==
    \/ ownInit
    \/ onAccepted65 \/ onAccepted66 \/ onAccepted70 \/ onAccepted71
    \/ onCancel
    \/ StateEstimate
    \/ onExecute83 \/ onExecute94 \/ onExecute96
    \/ onExecute98 \/ onExecute101 \/ onExecute102
    \/ onExecute105 \/ onExecute106 \/ onExecute107
    \/ onExecute109 \/ onExecute124 \/ onExecute146
    \/ onExecute151 \/ onExecute155
    \/ onExecute158 \/ onExecute160 \/ onExecute161

Spec == Init /\ [][Next]_vars

(***************************************************************************)
(* One control tick on its own: onExecute is at line 105 of some           *)
(* iteration, with the target, the estimated position, the speed limit and *)
(* the policy flag drawn from wider sets.                                  *)
(***************************************************************************)
TickCoords == {-10 * Unit, -3 * Unit, -Dec(19), -Dec(1), 0, Dec(7),
               2 * Unit, Dec(105), 10 * Unit}
TickTargets == {<<x, y, z>> : x \in TickCoords, y \in TickCoords, z \in TickCoords}
TickActuals == {Origin, <<Dec(3), 0, -Dec(1)>>}
\* limits desired_speed_ may hold: the configured default (0 included) or
\* any nonzero max_speed of a goal (negative ones included)
TickSpeeds == {-Unit, 0, DecF(5), DecF(15), 2 * Unit}

InitTick ==
    /\ initialized = TRUE
    /\ param_error = FALSE
    /\ proportional_speed_limit_ \in BOOLEAN
    /\ desired_speed_ \in TickSpeeds
    /\ default_max_speed = desired_speed_
    /\ desired_position_ \in TickTargets
    /\ ignore_yaw_ \in BOOLEAN
    /\ distance_measured_ = TRUE
    /\ actual_position_ \in TickActuals
    /\ pose_mutex_ = "free"
    /\ goal_condition = FALSE
    /\ acc_pc = "idle"
    /\ acc_goal = NoGoal
    /\ accepted = 1
    /\ pending = NoGoal
    /\ pc = "l105"
    /\ exec_goal = [pos |-> desired_position_, max_speed |-> 0,
                    ignore_yaw |-> ignore_yaw_]
    /\ canceling = FALSE
    /\ speed_setpoint = Origin
    /\ desired_yaw = ActualYaw
    /\ speed = Origin
    /\ result_success = "unset"
    /\ n_canceled = 0
    /\ n_succeed = 0
    /\ n_hold = 0
    /\ n_vel = 0
    /\ n_feedback = 0
    /\ ret = "none"
    /\ ticks = 0
    /\ hist = Hist0

NextTick ==
    \/ onExecute105 \/ onExecute106 \/ onExecute107
    \/ onExecute109 \/ onExecute124 \/ onExecute146

SpecTick == InitTick /\ [][NextTick]_vars

(***************************************************************************)
(* Properties of the goal lifecycle (specification Spec).                  *)
(***************************************************************************)
Returned == pc = "done"

\* C1: once the while condition finds the goal reached, the execution ends
\* Succeeded: no velocity command is issued from then on (none at all when
\* the first check finds it), the hold command is issued once, and the
\* result carries success == true.
C1_GoalReachedSucceeds ==
    hist.goal_found =>
        /\ pc \in {"l158", "l160", "l161", "done"}
        /\ n_vel = hist.vel_at_goal
        /\ n_canceled = 0
        /\ n_hold <= 1
        /\ Returned => /\ n_succeed = 1
                       /\ n_hold = 1
                       /\ result_success = TRUE
                       /\ ret = TRUE

C1_Witness == Returned /\ hist.goal_found /\ n_vel = 1 /\ n_hold = 1

C3_CancelSeenByNextTick ==
    /\ ~hist.vel_in_cancel_tick
    /\ hist.vel_after_cancel <= 1

C3_Witness ==
    Returned /\ hist.vel_after_cancel = 1 /\ hist.cancel_found /\ ret = FALSE

\* C4: a run of onExecute that has returned emitted exactly one result
\* (canceled or succeed, never both) and exactly one hold command;
\* success is false on the cancelled path and true on the goal path, and
\* it is the value returned.
C4_OneResultOneHold ==
    /\ n_canceled + n_succeed <= 1
    /\ n_hold <= 1
    /\ Returned =>
          /\ n_canceled + n_succeed = 1
          /\ n_hold = 1
          /\ hist.cancel_found => (n_canceled = 1 /\ result_success = FALSE)
          /\ hist.goal_found => (n_succeed = 1 /\ result_success = TRUE)
          /\ hist.cancel_found # hist.goal_found
          /\ ret = result_success

C4_Witness == Returned /\ n_canceled = 1 /\ n_hold = 1 /\ ret = FALSE /\ n_vel = 0

\* C5: after the actuator interface rejected a velocity command, no further
\* velocity command is issued and the execution reports failure.
C5_RejectAborts ==
    hist.rejected =>
        /\ hist.vel_after_reject = 0
        /\ pc \notin {"l151", "l155", "l94", "l96", "l105"}
        /\ Returned => ret = FALSE

\* C6: after ownInit failed to load the flag, onAccepted accepts no goal
\* and no execution starts.
C6_NoGoalAfterFailedInit ==
    param_error =>
        /\ accepted = 0
        /\ pending = NoGoal
        /\ ~Executing
        /\ ~Returned

\* C7: a goal with max_speed 0 is executed with the configured default as
\* its limit, whatever goals were accepted before it (no goal being
\* accepted while it runs), and a goal with a nonzero max_speed with that.
C7_ZeroMeansDefault ==
    (hist.limited /\ ~hist.overlap) =>
        hist.limit = IF exec_goal.max_speed = 0 THEN default_max_speed
                     ELSE exec_goal.max_speed

(***************************************************************************)
(* Properties of the velocity limiter (specification SpecTick).            *)
(***************************************************************************)
\* the velocity command of this tick has been sent
Issued == pc = "l151"

\* y is x rounded to single precision
NearestFloat(y, x) ==
    /\ Representable(FloatBits, y)
    /\ Abs(y - x) * Pow2(FloatBits) <= Abs(x)

\* C8 as stated: under the per-axis clamp with a positive max speed every
\* axis of the command is within the limit and equals the position error
\* where that is within the limit.
C8_ClampExact ==
    (Issued /\ ~proportional_speed_limit_ /\ desired_speed_ > 0) =>
        \A i \in Axes :
            /\ Abs(speed[i]) <= desired_speed_
            /\ Abs(speed_setpoint[i]) <= desired_speed_
                  => speed[i] = speed_setpoint[i]

\* C8 amended: under the per-axis clamp with a positive max speed every
\* axis of the command is within the limit, and where the position error
\* is within the limit the command is the error rounded to single
\* precision (the error itself when a float holds it exactly).
C8_ClampRounded ==
    (Issued /\ ~proportional_speed_limit_ /\ desired_speed_ > 0) =>
        \A i \in Axes :
            /\ Abs(speed[i]) <= desired_speed_
            /\ Abs(speed_setpoint[i]) <= desired_speed_
                  => NearestFloat(speed[i], speed_setpoint[i])
            /\ (/\ Abs(speed_setpoint[i]) <= desired_speed_
                /\ Representable(FloatBits, speed_setpoint[i]))
                  => speed[i] = speed_setpoint[i]

C8_Witness ==
    /\ Issued /\ ~proportional_speed_limit_ /\ desired_speed_ > 0
    /\ Abs(speed_setpoint[1]) > desired_speed_ /\ speed[1] = -desired_speed_
    /\ Abs(speed_setpoint[2]) <= desired_speed_ /\ speed[2] # speed_setpoint[2]
    /\ Abs(speed_setpoint[3]) <= desired_speed_ /\ speed[3] = speed_setpoint[3]
    /\ speed[3] # 0

NoZeroAxis(v) == \A i \in Axes : v[i] # 0

\* ratio out[i] : out[j] equal to in[i] : in[j]
SameRatio(out, in, i, j) == out[i] * in[j] = out[j] * in[i]

\* the same within the rounding of the three multiplications of each axis
CloseRatio(out, in, i, j) ==
    Abs(out[i] * in[j] - out[j] * in[i])
        <= (Abs(out[i] * in[j]) + Abs(out[j] * in[i])) \div Pow2(DoubleBits - 3)

\* C9 as stated: under proportional scaling with a positive max speed and
\* no zero axis in the position error, the command is a positive multiple
\* of the error: equal ratios between axes and no axis changing sign.
C9_ExactMultiple ==
    (Issued /\ proportional_speed_limit_ /\ desired_speed_ > 0
            /\ NoZeroAxis(speed_setpoint)) =>
        /\ \A i \in Axes : Sign(speed[i]) = Sign(speed_setpoint[i])
        /\ \A i, j \in Axes : SameRatio(speed, speed_setpoint, i, j)

\* C9 amended: under proportional scaling with a positive max speed and no
\* zero axis in the position error, no axis of the command changes sign
\* and the ratios between its axes are those of the error up to the
\* rounding of the multiplications (a relative difference of at most
\* 2^-(DoubleBits-4)); they are equal when no axis exceeds the limit.
C9_RoundedMultiple ==
    (Issued /\ proportional_speed_limit_ /\ desired_speed_ > 0
            /\ NoZeroAxis(speed_setpoint)) =>
        /\ \A i \in Axes : Sign(speed[i]) = Sign(speed_setpoint[i])
        /\ \A i, j \in Axes : CloseRatio(speed, speed_setpoint, i, j)
        /\ (\A i \in Axes : Abs(speed_setpoint[i]) <= desired_speed_)
              => speed = speed_setpoint

C9_Witness ==
    /\ Issued /\ proportional_speed_limit_ /\ desired_speed_ > 0
    /\ NoZeroAxis(speed_setpoint)
    /\ speed # speed_setpoint
    /\ ~SameRatio(speed, speed_setpoint, 1, 2)
    /\ Abs(speed_setpoint[2]) > Abs(speed_setpoint[1])
    /\ Abs(speed_setpoint[1]) > desired_speed_

\* the example of C10: target (10, 10, 0), current (0, 0, 0), max speed 2,
\* proportional policy
C10_Input ==
    /\ Issued
    /\ proportional_speed_limit_
    /\ desired_speed_ = 2 * Unit
    /\ desired_position_ = <<10 * Unit, 10 * Unit, 0>>
    /\ actual_position_ = Origin
    /\ speed_setpoint = <<10 * Unit, 10 * Unit, 0>>

\* C10 as stated: the command of the example has x == y, z == 0, every
\* axis within 2, and is about (sqrt(2), sqrt(2), 0): x*x and y*y are about
\* 2 (within 0.1), which makes the Euclidean norm the max speed.
C10_NormLimited ==
    C10_Input =>
        /\ speed[1] = speed[2]
        /\ speed[3] = 0
        /\ \A i \in Axes : Abs(speed[i]) <= 2 * Unit
        /\ \A i \in 1..2 :
              Abs(speed[i] * speed[i] - 2 * Unit * Unit) * 10 <= Unit * Unit

\* C10 amended: the command of the example is (2, 2, 0): x == y, z == 0,
\* every axis within 2 (x and y at the limit), so x*x and y*y are 4 and the
\* Euclidean norm is 2*sqrt(2), above the max speed.
C10_AxisLimited ==
    C10_Input =>
        /\ speed = <<2 * Unit, 2 * Unit, 0>>
        /\ speed[1] * speed[1] + speed[2] * speed[2] > (2 * Unit) * (2 * Unit)

C10_Witness == C10_Input /\ speed[1] = 2 * Unit /\ n_vel = 1

\* C11: with a max speed of 0 the per-axis clamp sends the zero vector for
\* every position error, and the proportional policy skips every axis (it
\* divides by nothing) and sends the position error unchanged.
C11_ZeroSpeed ==
    (Issued /\ desired_speed_ = 0) =>
        IF proportional_speed_limit_ THEN speed = speed_setpoint
        ELSE speed = Origin

C11_Witness ==
    /\ Issued /\ desired_speed_ = 0 /\ proportional_speed_limit_
    /\ NoZeroAxis(speed_setpoint)
    /\ speed = speed_setpoint

\* the square of the horizontal error magnitude, exactly, and the square
\* of the near-goal threshold 2.0 of line 115 with the rounding error the
\* computed norm can carry
HorizontalSq(v) == v[1] * v[1] + v[2] * v[2]
ThresholdSq == (2 * Unit) * (2 * Unit)
ThresholdBand == ThresholdSq \div Pow2(DoubleBits - 2)

\* C12: the heading of the command is the actual heading when ignore_yaw_
\* is set or the horizontal error magnitude (speed_setpoint.head(2).norm()
\* as line 115 computes it) is below 2.0, and atan2f of the error
\* otherwise; the computed test is that of the exact magnitude except
\* within rounding error of 2.0.
C12_Heading ==
    Issued =>
        /\ desired_yaw = IF ignore_yaw_ \/ NearGoal(speed_setpoint)
                         THEN ActualYaw
                         ELSE getDesiredYawAngle(speed_setpoint)
        /\ HorizontalSq(speed_setpoint) < ThresholdSq - ThresholdBand
              => desired_yaw = ActualYaw
        /\ (~ignore_yaw_
              /\ HorizontalSq(speed_setpoint) >= ThresholdSq + ThresholdBand)
              => desired_yaw = getDesiredYawAngle(speed_setpoint)

C12_Witness ==
    /\ Issued /\ ~ignore_yaw_
    /\ desired_yaw = ActualYaw
    /\ speed_setpoint[1] # 0 /\ speed_setpoint[2] # 0
    /\ n_vel = 1

\* C13 as stated: from the start of onExecute to its return every tick
\* reads the target (line 106), the ignore-heading flag (lines 109-115) and
\* the speed limit (lines 131-135, 173-175) of the goal it executes, also
\* when onAccepted runs for another goal meanwhile.
C13_GoalImmutable ==
    /\ pc = "l106" => desired_position_ = exec_goal.pos
    /\ pc = "l109" => ignore_yaw_ = exec_goal.ignore_yaw
    /\ pc = "l124" => desired_speed_ = hist.limit_at_start

\* C14 as stated: the tick holds pose_mutex_ at each read of state the
\* estimator writes: actual_position_ (line 106) and the feedback values
\* actual_distance_to_goal_ and actual_speed_ (lines 151-152).
C14_ReadsUnderLock ==
    /\ pc = "l106" => pose_mutex_ = "onExecute"
    /\ pc = "l151" => pose_mutex_ = "onExecute"

\* C15: onExecute holds pose_mutex_ only while it computes the position
\* error (lines 106-107): the lock is free of it when the command is sent,
\* the feedback published, during the sleep, when a result is emitted and
\* when onExecute has returned.
C15_LockOnlyForError ==
    /\ pose_mutex_ = "onExecute" => pc \in {"l106", "l107"}
    /\ pc \in {"l146", "l151", "l155", "l98", "l101", "l102",
               "l158", "l160", "l161", "done", "idle"}
          => pose_mutex_ = "free"

C15_Witness ==
    /\ pc = "l155" /\ n_vel = 1 /\ n_feedback = 1
    /\ pose_mutex_ = "free"
    /\ speed_setpoint # Origin

\* the calls made so far by an execution that has completed k ticks
Sent(vel, feedback) == n_vel = vel /\ n_feedback = feedback

\* C16: onExecute leaves the loop only where the while condition found the
\* goal reached or line 96 found a cancel request; every other tick sends
\* one velocity command, then publishes one feedback, then sleeps and
\* tests again, however many ticks have passed.
C16_ExitsOnlyOnGoalOrCancel ==
    /\ pc \in {"l98", "l101", "l102"} => hist.cancel_found
    /\ pc \in {"l158", "l160", "l161"} => hist.goal_found
    /\ pc = "done" => IF ret = TRUE THEN hist.goal_found ELSE hist.cancel_found
    /\ pc \in {"l94", "l96", "l105", "l106", "l107", "l109", "l124", "l146"}
          => Sent(ticks, ticks)
    /\ pc = "l151" => Sent(ticks + 1, ticks)
    /\ pc = "l155" => Sent(ticks + 1, ticks + 1)
    /\ pc \in {"l98", "l101", "l102", "l158", "l160", "l161", "done"}
          => Sent(ticks, ticks)

C16_Witness ==
    /\ pc = "l96" /\ ticks = MaxTicks
    /\ ~hist.goal_found /\ ~canceling
    /\ Sent(MaxTicks, MaxTicks)

\* C17 as stated: under the per-axis clamp with a nonzero max speed,
\* negative ones included, every axis of the command is within
\* [-|max speed|, |max speed|] and never of the sign opposite to the
\* position error's.
C17_ClampKeepsSign ==
    (Issued /\ ~proportional_speed_limit_ /\ desired_speed_ # 0) =>
        \A i \in Axes :
            /\ Abs(speed[i]) <= Abs(desired_speed_)
            /\ Sign(speed[i]) * Sign(speed_setpoint[i]) >= 0

\* C18 as stated: under proportional scaling with a positive max speed
\* every axis of the command is within the max speed after the pass over
\* the three axes, and the command is the position error when no axis
\* exceeds it.
C18_AxisBound ==
    (Issued /\ proportional_speed_limit_ /\ desired_speed_ > 0) =>
        /\ \A i \in Axes : Abs(speed[i]) <= desired_speed_
        /\ (\A i \in Axes : Abs(speed_setpoint[i]) <= desired_speed_)
              => speed = speed_setpoint

\* C18 amended: under proportional scaling with a positive max speed every
\* axis of the command is within the max speed up to the rounding of the
\* quotient and of the product (a relative excess of at most
\* 3 * 2^-DoubleBits), no axis is larger than in the position error, and
\* the command is the position error when no axis exceeds the max speed.
C18_AxisBoundRounded ==
    (Issued /\ proportional_speed_limit_ /\ desired_speed_ > 0) =>
        /\ \A i \in Axes :
              /\ Abs(speed[i]) * Pow2(DoubleBits)
                    <= desired_speed_ * (Pow2(DoubleBits) + 3)
              /\ Abs(speed[i]) <= Abs(speed_setpoint[i])
        /\ (\A i \in Axes : Abs(speed_setpoint[i]) <= desired_speed_)
              => speed = speed_setpoint

C18_Witness ==
    /\ Issued /\ proportional_speed_limit_ /\ desired_speed_ > 0
    /\ Abs(speed_setpoint[1]) > desired_speed_
    /\ Abs(speed_setpoint[3]) > Abs(speed_setpoint[1])
    /\ Abs(speed[3]) > desired_speed_
    /\ Abs(speed[1]) < desired_speed_

====
